---------------------------- MODULE Spec2Model ----------------------------
(***************************************************************************)
(* Rolling least squares (RollingOLS / RollingWLS) as exercised by the     *)
(* rolling_ls notebook: a window slides over an ordered observation        *)
(* sequence and a linear model is fitted at every window end-point from    *)
(* running cross-product accumulators.                                     *)
(*                                                                         *)
(* Positions are zero-based, as in the notebook and the specification:     *)
(* row i of the input is obs[i + 1].  Arithmetic is exact: coefficients    *)
(* are reduced fractions <<numerator, denominator>>, so a design is        *)
(* singular exactly when the determinant of X'WX is 0.                     *)
(***************************************************************************)
EXTENDS Integers, Sequences, FiniteSets, TLC

VARIABLES
    obs,          \* the observation rows (y_t, x_t), in time order
    weights,      \* {} (absent: unit weights) or {w}, w one weight per row
    data,         \* the model's rows: each observation with its weight
    window,       \* window_size
    min_nobs,     \* {} (unset) or {m}
    expanding,    \* BOOLEAN
    cov_type,     \* "nonrobust", "hc0" or anything else
    params_only,  \* BOOLEAN
    reset,        \* {} (unset) or {r}
    pc,           \* "call", "run", "done" or "failed"
    t,            \* the next position to process
    xpx,          \* running X'WX over the current window
    xpy,          \* running X'Wy over the current window
    result,       \* the slots stored so far, one per processed position
    raised,       \* the errors raised out of fit, in order
    solved,       \* positions for which the normal equations were solved
    log,          \* per processed position, what was done to the accumulators
    stl,          \* the seasonal forecast of the STL example, <<>> elsewhere
    simple,       \* the call of the Simple contrast example, <<>> elsewhere
    dfm           \* the ExtendedDFM example's model and calls, <<>> elsewhere

vars == <<obs, weights, data, window, min_nobs, expanding, cov_type, params_only,
          reset, pc, t, xpx, xpy, result, raised, solved, log, stl, simple, dfm>>

\* The state of the other examples, which the rolling regression never
\* touches.
examples == <<stl, simple, dfm>>

NoExamples == stl = <<>> /\ simple = <<>> /\ dfm = <<>>

inputs == <<obs, weights, data>>

config == <<window, min_nobs, expanding, cov_type, params_only, reset>>

---------------------------------------------------------------------------
(* Bounds of the model                                                     *)

MaxN == 3

MaxReset == 2

\* The rows the inputs are drawn from: a constant and one regressor (k = 2).
\* Two rows with the same regressor value are collinear.
FullRows ==
    {[y |-> 1, x |-> <<1, 0>>, nan |-> {}],
     [y |-> 1, x |-> <<1, 1>>, nan |-> {}],
     [y |-> 2, x |-> <<1, 1>>, nan |-> {}]}

\* A missing y or x is a NaN: the row keeps a number in that place, which
\* the engine must never read.
MissingRows ==
    {[y |-> 2, x |-> <<1, 0>>, nan |-> {"y"}]}

RowValues == FullRows \cup MissingRows

CovTypes == {"nonrobust", "hc0", "hc1"}

\* The weights of a weighted fit: non-negative, zero included.
WeightValues == {0, 1, 2}

---------------------------------------------------------------------------
(* Exact arithmetic                                                        *)

Abs(a) == IF a < 0 THEN -a ELSE a

RECURSIVE Gcd(_, _)
Gcd(a, b) == IF b = 0 THEN a ELSE Gcd(b, a % b)

\* The reduced fraction n / d, d # 0.
Frac(n, d) ==
    LET g == Gcd(Abs(n), Abs(d))
        s == IF d < 0 THEN -1 ELSE 1
    IN  <<s * (n \div g), s * (d \div g)>>

\* The sum of f[i] over i in S.
RECURSIVE SumOver(_, _)
SumOver(S, f) ==
    IF S = {} THEN 0
    ELSE LET i == CHOOSE j \in S : TRUE IN f[i] + SumOver(S \ {i}, f)

\* Fractions; <<0, 0>> stands for an undefined quotient (0 / 0 or x / 0).
FNan == <<0, 0>>

FMake(a, d) == IF d = 0 THEN FNan ELSE Frac(a, d)

\* k by k integer matrices and k-vectors, as tuples.
ZeroVec(k) == [i \in 1..k |-> 0]

ZeroMat(k) == [i \in 1..k |-> [j \in 1..k |-> 0]]

VecAdd(u, v) == [i \in DOMAIN u |-> u[i] + v[i]]

VecSub(u, v) == [i \in DOMAIN u |-> u[i] - v[i]]

MatAdd(A, B) == [i \in DOMAIN A |-> VecAdd(A[i], B[i])]

MatSub(A, B) == [i \in DOMAIN A |-> VecSub(A[i], B[i])]

\* The determinant and the adjugate, written out for k = 1 and k = 2.
Det(A) ==
    IF Len(A) = 1 THEN A[1][1]
    ELSE A[1][1] * A[2][2] - A[1][2] * A[2][1]

Adj(A) ==
    IF Len(A) = 1 THEN <<(<<1>>)>>
    ELSE << <<A[2][2], -A[1][2]>>, <<-A[2][1], A[1][1]>> >>

MatVec(A, v) == [i \in DOMAIN A |-> SumOver(DOMAIN v, [j \in DOMAIN v |-> A[i][j] * v[j]])]

---------------------------------------------------------------------------
(* The inputs of one call                                                  *)

n == Len(obs)

\* The number of covariates.
K == Len(obs[1].x)

Opt(s) == CHOOSE v \in s : TRUE

\* Mutant of Weight: absent weights are taken as zeros.
WeightAbsentZero(i) == IF weights = {} THEN 0 ELSE Opt(weights)[i + 1]

\* Absent weights are unit weights.
Weight(i) == IF weights = {} THEN 1 ELSE Opt(weights)[i + 1]

\* The rows the model is constructed with: each observation with its weight.
WeightedRows ==
    [i \in 1..n |->
        [y |-> obs[i].y, x |-> obs[i].x, nan |-> obs[i].nan, w |-> Weight(i - 1)]]

\* The data of the call.
Data == data

\* Row i (zero-based) of the data d.
Row(d, i) == d[i + 1]

\* min_nobs defaults to k.
MinNobs == IF min_nobs = {} THEN K ELSE Opt(min_nobs)

\* Mutant of IsNan: no row is treated as missing.
IsNanNever(d, i) == FALSE

\* A row with a missing y or x.
IsNan(d, i) == Row(d, i).nan # {}

\* A row that counts as an observation: non-missing and of non-zero weight.
IsValid(d, i) == ~IsNan(d, i) /\ Row(d, i).w # 0

---------------------------------------------------------------------------
(* The window ending at position s                                         *)

\* Mutant of WindowLo: an expanding window never stops growing.
WindowLoExpandingKeepsAll(s) ==
    IF expanding THEN 0
    ELSE IF s - window + 1 > 0 THEN s - window + 1 ELSE 0

\* Mutant of WindowLo: the window reaches back one row too far, rows
\* s - window .. s.
WindowLoOneMore(s) == IF s - window > 0 THEN s - window ELSE 0

\* The first row of the window ending at s: s - window + 1, or 0 while the
\* window is not yet full.
WindowLo(s) == IF s - window + 1 > 0 THEN s - window + 1 ELSE 0

WindowRows(s) == WindowLo(s)..s

\* The rows of S that enter the sums: the non-missing ones.
Present(d, S) == {i \in S : ~IsNan(d, i)}

\* The rows of S that count as observations.
ValidRows(d, S) == {i \in S : IsValid(d, i)}

\* The contribution of row i to X'WX and to X'Wy.
RowXpx(d, i) ==
    LET r == Row(d, i)
    IN  [a \in 1..K |-> [b \in 1..K |-> r.w * r.x[a] * r.x[b]]]

RowXpy(d, i) ==
    LET r == Row(d, i)
    IN  [a \in 1..K |-> r.w * r.x[a] * r.y]

\* The cross-products summed over an explicit set of rows.
SumXpx(d, S) ==
    [a \in 1..K |-> [b \in 1..K |-> SumOver(S, [i \in S |-> RowXpx(d, i)[a][b]])]]

SumXpy(d, S) == [a \in 1..K |-> SumOver(S, [i \in S |-> RowXpy(d, i)[a]])]

---------------------------------------------------------------------------
(* One step of the accumulators                                            *)

\* Mutant of Entering: a missing row is added like any other.
EnteringAlsoNan(d, s) == {s}

\* The row that enters the sums at step s, if it is not missing.
Entering(d, s) == IF IsNan(d, s) THEN {} ELSE {s}

\* Mutant of Leaving: nothing is ever removed from the sums.
LeavingNever(d, s) == {}

\* Mutant of Leaving: a missing row, never added, is removed all the same.
LeavingAlsoNan(d, s) == IF s - window >= 0 THEN {s - window} ELSE {}

\* The row that fell out of the window at step s, if it was ever added.
Leaving(d, s) ==
    IF s - window >= 0 /\ ~IsNan(d, s - window) THEN {s - window} ELSE {}

\* With reset = r, every r-th step after the first full window sums the
\* explicit window again.
IsResetStep(s) ==
    IF reset = {} THEN FALSE
    ELSE s > window - 1 /\ s % Opt(reset) = 0

\* Mutant of NextXpx: reset is ignored, every step updates incrementally.
NextXpxNoReset(d, A, s) ==
    MatSub(MatAdd(A, SumXpx(d, Entering(d, s))), SumXpx(d, Leaving(d, s)))

\* Mutant of NextXpx: after a singular solve the sum is started afresh from
\* the entering row.
NextXpxClearedOnSingular(d, A, s) ==
    IF IsResetStep(s) THEN SumXpx(d, Present(d, WindowRows(s)))
    ELSE IF s > 0 /\ A # ZeroMat(K) /\ Det(A) = 0 THEN SumXpx(d, Entering(d, s))
    ELSE MatSub(MatAdd(A, SumXpx(d, Entering(d, s))), SumXpx(d, Leaving(d, s)))

\* The accumulators after step s, from their values A and v before it.
NextXpx(d, A, s) ==
    IF IsResetStep(s) THEN SumXpx(d, Present(d, WindowRows(s)))
    ELSE MatSub(MatAdd(A, SumXpx(d, Entering(d, s))), SumXpx(d, Leaving(d, s)))

NextXpy(d, v, s) ==
    IF IsResetStep(s) THEN SumXpy(d, Present(d, WindowRows(s)))
    ELSE VecSub(VecAdd(v, SumXpy(d, Entering(d, s))), SumXpy(d, Leaving(d, s)))

LogEntry(d, s) ==
    IF IsResetStep(s)
    THEN [recomputed |-> TRUE, added |-> {}, removed |-> {}]
    ELSE [recomputed |-> FALSE, added |-> Entering(d, s), removed |-> Leaving(d, s)]

---------------------------------------------------------------------------
(* The fit of one window                                                   *)

\* Mutant of Eligible: every position is fitted as soon as it has enough rows.
EligibleAlways(s) == TRUE

\* Mutant of Eligible: expanding is ignored.
EligibleFullOnly(s) == s >= window - 1

\* A position carries an estimate only from the first full window on,
\* unless the fit is expanding.
Eligible(s) == expanding \/ s >= window - 1

\* Mutant of Insufficient: a zero-weight row counts towards min_nobs.
InsufficientCountsZeroWeight(d, S) == Cardinality(Present(d, S)) < MinNobs

\* Mutant of Insufficient: the threshold is k, whatever min_nobs is.
InsufficientBelowK(d, S) == Cardinality(ValidRows(d, S)) < K

\* Mutant of Insufficient: only an empty window is skipped.
InsufficientEmptyOnly(d, S) == ValidRows(d, S) = {}

\* Too few valid rows among S: no estimate, and nothing is solved.
Insufficient(d, S) == Cardinality(ValidRows(d, S)) < MinNobs

IsSingular(A) == Det(A) = 0

\* The solution of A b = v for a non-singular A, by Cramer's rule: the
\* numerators Adj(A) v over the determinant.
SolveNum(A, v) == MatVec(Adj(A), v)

Solve(A, v) ==
    LET nv == SolveNum(A, v)
    IN  [a \in DOMAIN nv |-> Frac(nv[a], Det(A))]

\* Det(A) times the residuals of the rows V under the solution of A b = v.
ResidNum(d, V, A, v) ==
    LET nv == SolveNum(A, v)
        dt == Det(A)
    IN  [i \in V |->
            dt * Row(d, i).y - SumOver(1..K, [a \in 1..K |-> Row(d, i).x[a] * nv[a]])]

\* Det(A)^2 times the weighted residual sum of squares, from the residual
\* numerators e.
SsrNum(d, e) ==
    SumOver(DOMAIN e, [i \in DOMAIN e |-> Row(d, i).w * e[i] * e[i]])

Ssr(d, A, e) == Frac(SsrNum(d, e), Det(A) * Det(A))

\* The rank of a non-singular k by k design.
Rank(A) == Len(A)

DfResid(nobs, A) == nobs - Rank(A)

MatMul(A, B) ==
    [a \in DOMAIN A |-> [b \in DOMAIN A |->
        SumOver(DOMAIN A, [c \in DOMAIN A |-> A[a][c] * B[c][b]])]]

\* "nonrobust": the inverted cross-product Adj(A) / Det(A) scaled by the
\* residual variance ssr / df_resid (undefined when df_resid = 0).
CovNonrobust(d, A, e) ==
    LET q  == SsrNum(d, e)
        dn == Det(A) * Det(A) * Det(A) * DfResid(Cardinality(DOMAIN e), A)
        C  == Adj(A)
    IN  [a \in 1..K |-> [c \in 1..K |-> FMake(q * C[a][c], dn)]]

\* "hc0": the sandwich with the outer products of the residual-weighted
\* regressors between two inverted cross-products.
CovHC0(d, A, e) ==
    LET C    == Adj(A)
        u    == [i \in DOMAIN e |-> Row(d, i).w * Row(d, i).w * e[i] * e[i]]
        Meat == [a \in 1..K |-> [c \in 1..K |->
                   SumOver(DOMAIN e,
                           [i \in DOMAIN e |-> u[i] * Row(d, i).x[a] * Row(d, i).x[c]])]]
        S    == MatMul(MatMul(C, Meat), C)
        dn   == Det(A) * Det(A) * Det(A) * Det(A)
    IN  [a \in 1..K |-> [c \in 1..K |-> Frac(S[a][c], dn)]]

Cov(d, A, e) ==
    IF cov_type = "hc0" THEN CovHC0(d, A, e) ELSE CovNonrobust(d, A, e)

\* Mutant of NoEstimate: the slot is zero filled instead of nan filled.
NoEstimateZeroFilled ==
    [kind |-> "none", params |-> [a \in 1..K |-> <<0, 1>>], nobs |-> 0,
     df_resid |-> 0, ssr |-> <<>>, cov |-> <<>>, error |-> ""]

\* The "no estimate" sentinel.
NoEstimate ==
    [kind |-> "none", params |-> <<>>, nobs |-> 0, df_resid |-> 0,
     ssr |-> <<>>, cov |-> <<>>, error |-> ""]

\* "No estimate with error": the design of the window is singular.
SingularSlot ==
    [kind |-> "error", params |-> <<>>, nobs |-> 0, df_resid |-> 0,
     ssr |-> <<>>, cov |-> <<>>, error |-> "SingularDesignError"]

\* Mutant of EstimateWith: under hc0 no degree of freedom is taken off for
\* the coefficients.
EstimateWithRobustDf(po, d, V, A, v) ==
    LET e == ResidNum(d, V, A, v)
    IN  [kind |-> "estimate", params |-> Solve(A, v), nobs |-> Cardinality(V),
         df_resid |-> IF po THEN 0
                      ELSE IF cov_type = "hc0" THEN Cardinality(V)
                      ELSE DfResid(Cardinality(V), A),
         ssr |-> IF po THEN <<>> ELSE Ssr(d, A, e),
         cov |-> IF po THEN <<>> ELSE Cov(d, A, e),
         error |-> ""]

\* Mutant of EstimateWith: the residual degrees of freedom are taken from
\* the window size instead of the valid rows used.
EstimateWithWindowDf(po, d, V, A, v) ==
    LET e == ResidNum(d, V, A, v)
    IN  [kind |-> "estimate", params |-> Solve(A, v), nobs |-> Cardinality(V),
         df_resid |-> IF po THEN 0 ELSE DfResid(window, A),
         ssr |-> IF po THEN <<>> ELSE Ssr(d, A, e),
         cov |-> IF po THEN <<>> ELSE Cov(d, A, e),
         error |-> ""]

\* Mutant of EstimateWith: the fast path is not taken, the full set of
\* values is computed whatever params_only says.
EstimateWithFullAlways(po, d, V, A, v) ==
    LET e == ResidNum(d, V, A, v)
    IN  [kind |-> "estimate", params |-> Solve(A, v), nobs |-> Cardinality(V),
         df_resid |-> DfResid(Cardinality(V), A),
         ssr |-> Ssr(d, A, e),
         cov |-> Cov(d, A, e),
         error |-> ""]

\* The estimate from the cross-products A and v of the valid rows V, with
\* params_only = po: the fast path leaves out the values needed for
\* inference.
EstimateWith(po, d, V, A, v) ==
    LET e == ResidNum(d, V, A, v)
    IN  [kind |-> "estimate", params |-> Solve(A, v), nobs |-> Cardinality(V),
         df_resid |-> IF po THEN 0 ELSE DfResid(Cardinality(V), A),
         ssr |-> IF po THEN <<>> ELSE Ssr(d, A, e),
         cov |-> IF po THEN <<>> ELSE Cov(d, A, e),
         error |-> ""]

Estimate(d, V, A, v) == EstimateWith(params_only, d, V, A, v)

\* The normal equations are solved at s.
Solves(d, s) == Eligible(s) /\ ~Insufficient(d, WindowRows(s))

\* The slot of position s, from the accumulators A = X'WX and v = X'Wy,
\* with params_only = po.
FitSingleWith(po, d, s, A, v) ==
    IF ~Solves(d, s) THEN NoEstimate
    ELSE IF IsSingular(A) THEN SingularSlot
    ELSE EstimateWith(po, d, ValidRows(d, WindowRows(s)), A, v)

FitSingle(d, s, A, v) == FitSingleWith(params_only, d, s, A, v)

\* The accumulators after the first s positions of d.
RECURSIVE Acc(_, _)
Acc(d, s) ==
    IF s = 0 THEN [xpx |-> ZeroMat(K), xpy |-> ZeroVec(K)]
    ELSE LET p == Acc(d, s - 1)
         IN  [xpx |-> NextXpx(d, p.xpx, s - 1), xpy |-> NextXpy(d, p.xpy, s - 1)]

\* The slot a run over d with params_only = po stores at position s.
RunSlotWith(po, d, s) ==
    LET a == Acc(d, s + 1)
    IN  FitSingleWith(po, d, s, a.xpx, a.xpy)

\* The slot a run over d stores at position s.
RunSlot(d, s) == RunSlotWith(params_only, d, s)

\* The result of a run over d: one slot per position.
Run(d) == [i \in 1..Len(d) |-> RunSlot(d, i - 1)]

---------------------------------------------------------------------------
(* fit                                                                     *)

\* The static parameters are acceptable.
WindowOk == window >= 1 /\ window <= n

\* Mutant of MinNobsOk: the upper limit is not checked.
MinNobsAtLeastK == MinNobs >= K

MinNobsOk == MinNobs >= K /\ MinNobs <= window

\* Mutant of CovTypeOk: any covariance type is accepted.
CovTypeAny == TRUE

CovTypeOk == cov_type \in {"nonrobust", "hc0"}

ResetOk == IF reset = {} THEN TRUE ELSE Opt(reset) >= 1

ConfigOk == WindowOk /\ MinNobsOk /\ CovTypeOk /\ ResetOk

TypeOK ==
    /\ pc \in {"call", "run", "done", "failed"}
    /\ t \in 0..n
    /\ Len(result) = t
    /\ Len(log) = t
    /\ solved \subseteq 0..(n - 1)
    /\ DOMAIN data = 1..n

\* The calls: RollingOLS(endog, exog, window, min_nobs, expanding).fit(
\* cov_type, params_only, reset).  Every accepted configuration is drawn
\* with every input within the bounds; a rejected one, which reads no row,
\* with the inputs of each length whose rows are all the same.
Init ==
    /\ \E nn \in 1..MaxN : obs \in [1..nn -> RowValues]
    /\ weights = {}
    /\ data = WeightedRows
    /\ window \in 0..(n + 1)
    /\ min_nobs \in {{}} \cup {{m} : m \in 1..n}
    /\ expanding \in BOOLEAN
    /\ cov_type \in CovTypes
    /\ params_only \in BOOLEAN
    /\ reset \in {{}} \cup {{r} : r \in 0..MaxReset}
    /\ ConfigOk \/ \A i \in 1..n : obs[i] = obs[1]
    /\ pc = "call"
    /\ t = 0
    /\ xpx = ZeroMat(K)
    /\ xpy = ZeroVec(K)
    /\ result = <<>>
    /\ raised = <<>>
    /\ solved = {}
    /\ log = <<>>
    /\ NoExamples

\* Entry of fit: the configuration is checked before any row is touched.
Validate ==
    /\ pc = "call"
    /\ IF ConfigOk
       THEN pc' = "run" /\ raised' = raised
       ELSE pc' = "failed" /\ raised' = Append(raised, "ConfigurationError")
    /\ UNCHANGED <<examples, inputs, config, t, xpx, xpy, result, solved, log>>

\* Mutant of Step: a position whose design is singular is tried again
\* instead of being stored.
StepRetriesSingular ==
    /\ pc = "run"
    /\ t < n
    /\ IF FitSingle(Data, t, NextXpx(Data, xpx, t), NextXpy(Data, xpy, t)) = SingularSlot
       THEN UNCHANGED <<xpx, xpy, result, solved, log, t>>
       ELSE /\ xpx' = NextXpx(Data, xpx, t)
            /\ xpy' = NextXpy(Data, xpy, t)
            /\ result' = Append(result, FitSingle(Data, t, xpx', xpy'))
            /\ solved' = IF Solves(Data, t) THEN solved \cup {t} ELSE solved
            /\ log' = Append(log, LogEntry(Data, t))
            /\ t' = t + 1
    /\ UNCHANGED <<examples, inputs, config, pc, raised>>

\* Mutant of Step: the row just added to the sums is marked as used up in
\* the input.
StepConsumesRow ==
    /\ pc = "run"
    /\ t < n
    /\ xpx' = NextXpx(Data, xpx, t)
    /\ xpy' = NextXpy(Data, xpy, t)
    /\ result' = Append(result, FitSingle(Data, t, xpx', xpy'))
    /\ solved' = IF Solves(Data, t) THEN solved \cup {t} ELSE solved
    /\ log' = Append(log, LogEntry(Data, t))
    /\ t' = t + 1
    /\ obs' = [obs EXCEPT ![t + 1] = [@ EXCEPT !.nan = {"y"}]]
    /\ UNCHANGED <<examples, weights, data, config, pc, raised>>

\* Mutant of Step: a singular design also marks the slot stored before it.
StepSingularSpreads ==
    /\ pc = "run"
    /\ t < n
    /\ xpx' = NextXpx(Data, xpx, t)
    /\ xpy' = NextXpy(Data, xpy, t)
    /\ result' =
           LET slot == FitSingle(Data, t, xpx', xpy')
           IN  IF t > 0 /\ slot = SingularSlot
               THEN Append([result EXCEPT ![t] = SingularSlot], slot)
               ELSE Append(result, slot)
    /\ solved' = IF Solves(Data, t) THEN solved \cup {t} ELSE solved
    /\ log' = Append(log, LogEntry(Data, t))
    /\ t' = t + 1
    /\ UNCHANGED <<examples, inputs, config, pc, raised>>

\* Position t: roll the accumulators, fit the window, store the slot.
Step ==
    /\ pc = "run"
    /\ t < n
    /\ xpx' = NextXpx(Data, xpx, t)
    /\ xpy' = NextXpy(Data, xpy, t)
    /\ result' = Append(result, FitSingle(Data, t, xpx', xpy'))
    /\ solved' = IF Solves(Data, t) THEN solved \cup {t} ELSE solved
    /\ log' = Append(log, LogEntry(Data, t))
    /\ t' = t + 1
    /\ UNCHANGED <<examples, inputs, config, pc, raised>>

\* Every position is done: the result is returned.
Finish ==
    /\ pc = "run"
    /\ t = n
    /\ pc' = "done"
    /\ UNCHANGED <<examples, inputs, config, t, xpx, xpy, result, raised, solved, log>>

Next == Validate \/ Step \/ Finish

Spec == Init /\ [][Next]_vars

\* The calls that fit accepts: the ones that go on to process rows.
InitAccepted == Init /\ ConfigOk

SpecAccepted == InitAccepted /\ [][Next]_vars

\* The engine before fit is entered.
Idle ==
    /\ pc = "call"
    /\ t = 0
    /\ xpx = ZeroMat(K)
    /\ xpy = ZeroVec(K)
    /\ result = <<>>
    /\ raised = <<>>
    /\ solved = {}
    /\ log = <<>>
    /\ NoExamples

\* The calls RollingWLS(endog, exog, window, weights, min_nobs,
\* expanding).fit(cov_type): accepted configurations on complete rows, the
\* weights absent or one weight per row.
InitWLS ==
    /\ \E nn \in 1..MaxN : obs \in [1..nn -> FullRows]
    /\ weights \in {{}} \cup {{w} : w \in [1..n -> WeightValues]}
    /\ data = WeightedRows
    /\ window \in 1..n
    /\ min_nobs \in {{}, {window}}
    /\ expanding \in BOOLEAN
    /\ cov_type \in {"nonrobust", "hc0"}
    /\ params_only = FALSE
    /\ reset = {}
    /\ ConfigOk
    /\ Idle

SpecWLS == InitWLS /\ [][Next]_vars

\* The intercept-only scenario: y = 1, 2, ..., 10 regressed on a constant
\* with a window of 3.
MeanLength == 10

MeanWindow == 3

MeanSeries == [i \in 1..MeanLength |-> [y |-> i, x |-> <<1>>, nan |-> {}]]

InitMean ==
    /\ obs = MeanSeries
    /\ weights = {}
    /\ data = WeightedRows
    /\ window = MeanWindow
    /\ expanding \in BOOLEAN
    /\ min_nobs \in {{}, {1}}
    /\ cov_type \in {"nonrobust", "hc0"}
    /\ params_only \in BOOLEAN
    /\ reset \in {{}} \cup {{r} : r \in 1..MaxReset}
    /\ ConfigOk
    /\ Idle

SpecMean == InitMean /\ [][Next]_vars

\* The calls with or without weights, accepted or rejected: any rows, the
\* weights absent or one positive weight per row, any window_size and
\* covariance type.
InitInputs ==
    /\ \E nn \in 1..MaxN : obs \in [1..nn -> RowValues]
    /\ weights \in {{}} \cup {{w} : w \in [1..n -> {1, 2}]}
    /\ data = WeightedRows
    /\ window \in 0..n
    /\ min_nobs = {}
    /\ expanding \in BOOLEAN
    /\ cov_type \in {"nonrobust", "hc1"}
    /\ params_only = TRUE
    /\ reset = {}
    /\ Idle

SpecInputs == InitInputs /\ [][Next]_vars

\* The weighted full fits whose weights are zeros and ones: the rows of
\* weight zero are the excluded ones.
InitZeroWeight ==
    /\ \E nn \in 1..MaxN : obs \in [1..nn -> FullRows]
    /\ weights \in {{w} : w \in [1..n -> {0, 1}]}
    /\ data = WeightedRows
    /\ window \in 1..n
    /\ min_nobs \in {{}, {window}}
    /\ expanding \in BOOLEAN
    /\ cov_type \in {"nonrobust", "hc0"}
    /\ params_only = FALSE
    /\ reset = {}
    /\ ConfigOk
    /\ Idle

SpecZeroWeight == InitZeroWeight /\ [][Next]_vars

\* fit is one synchronous call without suspension points: once entered it
\* keeps taking its next step.  The accepted fast-path fits of any rows,
\* with and without reset.
InitRuns ==
    /\ \E nn \in 1..MaxN : obs \in [1..nn -> RowValues]
    /\ weights = {}
    /\ data = WeightedRows
    /\ window \in 1..n
    /\ min_nobs = {}
    /\ expanding \in BOOLEAN
    /\ cov_type = "nonrobust"
    /\ params_only = TRUE
    /\ reset \in {{}} \cup {{r} : r \in 1..MaxReset}
    /\ ConfigOk
    /\ Idle

SpecRuns == InitRuns /\ [][Next]_vars /\ WF_vars(Next)

---------------------------------------------------------------------------
(* Reference definitions for the properties below                          *)

Started == pc \in {"run", "done"}

\* The positions processed so far, and the slot stored for one of them.
Processed == 0..(t - 1)

Slot(s) == result[s + 1]

\* The window ending at s, written out: the rows s - window + 1 .. s that
\* exist.
RowsEndingAt(s) == {i \in 0..(n - 1) : i <= s /\ i >= s - window + 1}

\* A full window ends at s, or the fit is expanding.
WindowAvailable(s) == expanding \/ s + 1 >= window

NonMissing(S) == {i \in S : obs[i + 1].nan = {}}

Counted(S) == {i \in NonMissing(S) : Weight(i) # 0}

\* Least squares from scratch on the explicit rows S.
RefFit(S) ==
    LET A == SumXpx(Data, NonMissing(S))
        v == SumXpy(Data, NonMissing(S))
    IN  IF Cardinality(Counted(S)) < MinNobs THEN NoEstimate
        ELSE IF Det(A) = 0 THEN SingularSlot
        ELSE Estimate(Data, Counted(S), A, v)

\* The slot position s must hold, computed from its own window alone.
RefSlot(s) == IF WindowAvailable(s) THEN RefFit(RowsEndingAt(s)) ELSE NoEstimate

---------------------------------------------------------------------------
---------------------------------------------------------------------------
(* C2: no look-ahead and window exclusivity.  The slot of position t is    *)
(* the slot a run stores at t on the input whose rows outside the window   *)
(* ending at t are all blanked (replaced by a missing row).  Two inputs    *)
(* that agree on the window ending at t have the same blanked input, hence *)
(* the same slot at t, whatever their rows after t or before the window.   *)

\* The data with every row outside S replaced by the observation r.
Blanked(S, r) ==
    [i \in 1..n |->
        IF (i - 1) \in S THEN Data[i]
        ELSE [y |-> r.y, x |-> r.x, nan |-> r.nan, w |-> Data[i].w]]

C2_NoLookAhead ==
    pc = "done" =>
        \A s \in 0..(n - 1) : \A r \in MissingRows :
            RunSlot(Blanked(RowsEndingAt(s), r), s) = Slot(s)

\* An estimate at a position with a row after it, and one with a row
\* before its window.
C2_Witness ==
    /\ pc = "done"
    /\ \E s \in 0..(n - 2) : Slot(s).kind = "estimate"
    /\ \E s \in 0..(n - 1) : s >= window /\ Slot(s).kind = "estimate"

---------------------------------------------------------------------------
(* C3, as claimed: in every expanding fit the first position with an       *)
(* estimate is min_nobs - 1.                                               *)
C3_FirstEstimateAtMinNobs ==
    (pc = "done" /\ expanding) =>
        /\ Slot(MinNobs - 1).kind = "estimate"
        /\ \A s \in 0..(MinNobs - 2) : Slot(s).kind # "estimate"

(* C3, amended: in an expanding fit no position before min_nobs - 1 has an *)
(* estimate; every position s >= min_nobs - 1 holds the fit of exactly the *)
(* rows max(0, s - window_size + 1) .. s, that is rows 0 .. min_nobs - 1   *)
(* at min_nobs - 1 and one row more per position until window_size rows;   *)
(* position min_nobs - 1 has an estimate if those rows are all valid and   *)
(* their design is not singular.                                           *)
C3_ExpandingAlignment ==
    (pc = "done" /\ expanding) =>
        \A s \in Processed :
            /\ s < MinNobs - 1 => Slot(s) = NoEstimate
            /\ s >= MinNobs - 1 =>
                   LET S == IF s < window THEN 0..s ELSE (s - window + 1)..s
                   IN  /\ Slot(s) = RefFit(S)
                       /\ Cardinality(S) = IF s < window THEN s + 1 ELSE window
            /\ (/\ s = MinNobs - 1
                /\ Counted(0..s) = 0..s
                /\ Det(SumXpx(Data, 0..s)) # 0) => Slot(s).kind = "estimate"

\* An expanding fit whose window grows: estimates at min_nobs - 1, on
\* min_nobs rows, and at the next position, on one row more.
C3_Witness ==
    /\ pc = "done" /\ expanding /\ MinNobs < window
    /\ Slot(MinNobs - 1).kind = "estimate"
    /\ Slot(MinNobs - 1).nobs = MinNobs
    /\ Slot(MinNobs).kind = "estimate"
    /\ Slot(MinNobs).nobs = MinNobs + 1

---------------------------------------------------------------------------
(* C4: with reset unset, after every step the incrementally updated        *)
(* accumulators equal the cross-products summed from scratch over the      *)
(* window that ends at the step's position, and the slot stored there is   *)
(* the fit those from-scratch sums give, missing rows included.            *)
C4_IncrementalMatchesScratch ==
    (Started /\ reset = {} /\ t > 0) =>
        LET S == NonMissing(RowsEndingAt(t - 1))
        IN  /\ xpx = SumXpx(Data, S)
            /\ xpy = SumXpy(Data, S)
            /\ Slot(t - 1) = FitSingle(Data, t - 1, SumXpx(Data, S), SumXpy(Data, S))

\* A missing row has left the window, and the window has an estimate.
C4_Witness ==
    /\ Started /\ reset = {} /\ t > window
    /\ obs[t - window].nan # {}
    /\ Slot(t - 1).kind = "estimate"

---------------------------------------------------------------------------
(* C5, as claimed: whenever the window has at least min_nobs valid rows,   *)
(* an estimate is produced from them.                                      *)
C5_EstimateWheneverEnough ==
    Started =>
        \A s \in Processed :
            (WindowAvailable(s) /\ Cardinality(Counted(RowsEndingAt(s))) >= MinNobs)
                => Slot(s).kind = "estimate"

(* C5, amended: the missing rows of a window are dropped, not imputed: a   *)
(* window with at least min_nobs valid rows gives the least-squares        *)
(* solution of its non-missing rows alone, with nobs the number of its     *)
(* valid rows, unless the design of those rows is singular, which gives    *)
(* "no estimate with error".                                               *)
C5_MissingRowsDropped ==
    pc = "done" =>
        \A s \in Processed :
            LET P == NonMissing(RowsEndingAt(s))
                V == Counted(RowsEndingAt(s))
            IN  (WindowAvailable(s) /\ Cardinality(V) >= MinNobs) =>
                    IF Det(SumXpx(Data, P)) = 0 THEN Slot(s) = SingularSlot
                    ELSE /\ Slot(s).kind = "estimate"
                         /\ Slot(s).nobs = Cardinality(V)
                         /\ Slot(s).params = Solve(SumXpx(Data, P), SumXpy(Data, P))

\* A window with a missing row in it and an estimate from the other rows.
C5_Witness ==
    /\ Started
    /\ \E s \in Processed :
          /\ Slot(s).kind = "estimate"
          /\ NonMissing(RowsEndingAt(s)) # RowsEndingAt(s)
          /\ Slot(s).nobs = Cardinality(RowsEndingAt(s)) - 1

---------------------------------------------------------------------------
(* C6: a position whose window has fewer than min_nobs valid rows (none at *)
(* all included) holds the "no estimate" sentinel, nothing was solved for  *)
(* it, no error is raised, and the fit goes on to the next position.       *)
C6_InsufficientIsNoEstimate ==
    Started =>
        /\ raised = <<>>
        /\ \A s \in Processed :
               Cardinality(Counted(RowsEndingAt(s))) < MinNobs =>
                   Slot(s) = NoEstimate /\ s \notin solved
        /\ pc = "done" => (t = n /\ Len(result) = n)

\* A window of a full-size or expanding fit with too few valid rows, one
\* with none at all, and an estimate after them.
C6_Witness ==
    /\ pc = "done"
    /\ \E s \in Processed, u \in Processed, z \in Processed :
          /\ z < s /\ s < u
          /\ WindowAvailable(z) /\ Counted(RowsEndingAt(z)) = {}
          /\ WindowAvailable(s)
          /\ Counted(RowsEndingAt(s)) # {}
          /\ Cardinality(Counted(RowsEndingAt(s))) < MinNobs
          /\ Slot(u).kind = "estimate"

---------------------------------------------------------------------------
(* C7, as claimed: a window with fewer than k valid rows yields            *)
(* SingularDesignError at its position.                                    *)
C7_TooFewRowsIsSingular ==
    Started =>
        \A s \in Processed :
            (WindowAvailable(s) /\ Cardinality(Counted(RowsEndingAt(s))) < K)
                => Slot(s).error = "SingularDesignError"

(* C7, amended: a window with fewer than k valid rows never yields a       *)
(* coefficient vector: as k <= min_nobs it holds the "no estimate"         *)
(* sentinel and nothing is solved for it.  SingularDesignError is the      *)
(* outcome of a window with at least min_nobs valid rows whose design is   *)
(* singular, and of no other.                                              *)
C7_TooFewRowsIsNoEstimate ==
    pc = "done" =>
        \A s \in Processed :
            LET V == Counted(RowsEndingAt(s))
            IN  /\ Cardinality(V) < K => (Slot(s) = NoEstimate /\ s \notin solved)
                /\ Slot(s).error = "SingularDesignError" <=>
                       /\ WindowAvailable(s)
                       /\ Cardinality(V) >= MinNobs
                       /\ Det(SumXpx(Data, NonMissing(RowsEndingAt(s)))) = 0

\* A full window left with one valid row, and a window of collinear rows.
C7_Witness ==
    /\ pc = "done"
    /\ \E s \in Processed, u \in Processed :
          /\ WindowAvailable(s)
          /\ Cardinality(Counted(RowsEndingAt(s))) = K - 1
          /\ Slot(s) = NoEstimate
          /\ Slot(u) = SingularSlot

---------------------------------------------------------------------------
(* C8: fit fails fast.  A call whose window_size is outside 1..n, whose    *)
(* min_nobs is out of range, whose cov_type is neither nonrobust nor hc0,  *)
(* or whose reset is below 1 raises ConfigurationError once, and never     *)
(* writes an output position or updates an accumulator.                    *)

BadWindow == window < 1 \/ window > n

BadMinNobs == MinNobs < K \/ MinNobs > window

BadCovType == cov_type # "nonrobust" /\ cov_type # "hc0"

BadReset == \E r \in reset : r < 1

C8_FailFast ==
    (BadWindow \/ BadMinNobs \/ BadCovType \/ BadReset) =>
        /\ pc \in {"call", "failed"}
        /\ pc = "call" => raised = <<>>
        /\ pc = "failed" => raised = <<"ConfigurationError">>
        /\ t = 0 /\ result = <<>> /\ log = <<>> /\ solved = {}
        /\ xpx = ZeroMat(K) /\ xpy = ZeroVec(K)

\* A call rejected for its covariance type alone, on an input of several
\* rows.
C8_Witness ==
    /\ pc = "failed"
    /\ raised = <<"ConfigurationError">>
    /\ BadCovType /\ ~BadWindow /\ ~BadMinNobs /\ ~BadReset
    /\ n > 1

---------------------------------------------------------------------------
(* C9: an unset min_nobs acts as k: the fit then gives "no estimate"       *)
(* exactly at the positions whose window is unavailable or has fewer than  *)
(* k valid rows.  A given min_nobs below k or above window_size is         *)
(* rejected with ConfigurationError, so every accepted call has            *)
(* k <= min_nobs <= window_size.                                           *)
C9_MinNobsRange ==
    /\ Started => (K <= MinNobs /\ MinNobs <= window)
    /\ (Started /\ min_nobs = {}) =>
           \A s \in Processed :
               Slot(s) = NoEstimate <=>
                   (~WindowAvailable(s) \/ Cardinality(Counted(RowsEndingAt(s))) < K)
    /\ (\E m \in min_nobs : m < K \/ m > window) =>
           /\ pc \in {"call", "failed"}
           /\ pc = "failed" => raised = <<"ConfigurationError">>
    /\ (min_nobs = {} /\ ~BadWindow /\ window >= K /\ ~BadCovType /\ ~BadReset) =>
           pc # "failed"

\* A call rejected for its min_nobs alone.
C9_Witness ==
    /\ pc = "failed"
    /\ \E m \in min_nobs : m > window
    /\ ~BadWindow /\ ~BadCovType /\ ~BadReset

---------------------------------------------------------------------------
(* C10: a singular design is local.  It is recorded in the slot of its own *)
(* position only, raises nothing out of fit, and the fit goes on: every    *)
(* position, before and after it, holds the slot computed from its own     *)
(* window alone.                                                           *)
C10_SingularIsLocal ==
    (Started /\ \E u \in Processed : Slot(u) = SingularSlot) =>
        /\ raised = <<>>
        /\ pc = "done" =>
               /\ t = n /\ Len(result) = n
               /\ \A s \in Processed : Slot(s) = RefSlot(s)

\* A singular window followed by a window with an estimate.
C10_Witness ==
    /\ pc = "done"
    /\ \E u \in Processed, s \in Processed :
          u < s /\ Slot(u) = SingularSlot /\ Slot(s).kind = "estimate"

---------------------------------------------------------------------------
(* C11: params_only = TRUE gives at every position the coefficient vector  *)
(* (or the no-estimate outcome) that params_only = FALSE gives on the same *)
(* input and configuration, and no covariance matrix at any position; the  *)
(* full fit has a covariance matrix at every estimate.                     *)
C11_ParamsOnlySameCoefficients ==
    pc = "done" =>
        \A s \in 0..(n - 1) : \A flipped \in {RunSlotWith(~params_only, Data, s)} :
            LET fast == IF params_only THEN Slot(s) ELSE flipped
                full == IF params_only THEN flipped ELSE Slot(s)
            IN  /\ fast.kind = full.kind
                /\ fast.params = full.params
                /\ fast.error = full.error
                /\ fast.cov = <<>>
                /\ full.kind = "estimate" => Len(full.cov) = K

\* A params_only fit with an estimate, a plain sentinel and a singular slot.
C11_Witness ==
    /\ pc = "done" /\ params_only
    /\ \E s \in Processed : Slot(s).kind = "estimate" /\ Len(Slot(s).params) = K
    /\ \E s \in Processed : Slot(s) = NoEstimate
    /\ \E s \in Processed : Slot(s) = SingularSlot

---------------------------------------------------------------------------
(* C12: a weighted fit whose weights are all 1, and a fit without weights, *)
(* store at every position exactly the result of least squares on the      *)
(* same observations with the weight 1 written on every row.               *)

\* The observations with the weight 1 on every row.
UnitData ==
    [i \in 1..n |-> [y |-> obs[i].y, x |-> obs[i].x, nan |-> obs[i].nan, w |-> 1]]

UnitWeights == IF weights = {} THEN TRUE ELSE \A i \in 1..n : Opt(weights)[i] = 1

C12_UnitWeightsMatchUnweighted ==
    (pc = "done" /\ UnitWeights) =>
        \A s \in 0..(n - 1) : Slot(s) = RunSlot(UnitData, s)

\* A weighted fit with all weights 1 and an estimate.
C12_Witness ==
    /\ pc = "done" /\ weights # {} /\ UnitWeights
    /\ \E s \in Processed : Slot(s).kind = "estimate"

---------------------------------------------------------------------------
(* C13: intercept-only series y = 1..10, window 3, not expanding:          *)
(* positions 0 and 1 hold "no estimate", position 2 has intercept 2,       *)
(* position 9 has intercept 9, and every position t >= 2 has the mean of   *)
(* y[t-2..t].                                                              *)

\* The mean of y over the rows lo..hi (zero-based), as a reduced fraction.
MeanOfY(lo, hi) ==
    Frac(SumOver(lo..hi, [i \in lo..hi |-> obs[i + 1].y]), hi - lo + 1)

C13_WindowedMean ==
    (pc = "done" /\ ~expanding) =>
        /\ Slot(0) = NoEstimate
        /\ Slot(1) = NoEstimate
        /\ Slot(2).params = <<(<<2, 1>>)>>
        /\ Slot(9).params = <<(<<9, 1>>)>>
        /\ \A s \in 2..(n - 1) :
               /\ Slot(s).kind = "estimate"
               /\ Slot(s).params = <<MeanOfY(s - 2, s)>>

\* The non-expanding fit of the series has ended with an estimate at 9.
C13_Witness ==
    /\ pc = "done" /\ ~expanding /\ n = 10 /\ window = 3
    /\ Slot(9).kind = "estimate"
    /\ obs[10].y = 10 /\ obs[1].x = <<1>>

---------------------------------------------------------------------------
(* C14: the same series, window 3, expanding with min_nobs = 1: position 0 *)
(* has intercept 1, position 1 has intercept 3/2, and every position       *)
(* t >= 2 has the windowed mean of y[t-2..t].                              *)
C14_ExpandingMean ==
    (pc = "done" /\ expanding /\ MinNobs = 1) =>
        /\ Slot(0).params = <<(<<1, 1>>)>>
        /\ Slot(1).params = <<(<<3, 2>>)>>
        /\ \A s \in 0..(n - 1) :
               /\ Slot(s).kind = "estimate"
               /\ Slot(s).params = <<MeanOfY(IF s < 2 THEN 0 ELSE s - 2, s)>>

\* The expanding fit of the series with min_nobs given as 1 has ended with
\* estimates from the first position on.
C14_Witness ==
    /\ pc = "done" /\ expanding /\ min_nobs = {1} /\ n = 10 /\ window = 3
    /\ Slot(0).kind = "estimate" /\ Slot(0).nobs = 1
    /\ Slot(9).kind = "estimate" /\ Slot(9).nobs = 3

---------------------------------------------------------------------------
(* C15: the result has one slot per processed position, n slots when the   *)
(* fit has ended; every slot is exactly one of an estimate (k defined      *)
(* coefficients, no error), "no estimate" or "no estimate with error", and *)
(* a slot in either no-estimate state carries no coefficient and no        *)
(* covariance.                                                             *)
C15_UniformResult ==
    /\ Len(result) = t
    /\ pc = "done" => Len(result) = n
    /\ \A s \in Processed :
           /\ Slot(s).kind \in {"estimate", "none", "error"}
           /\ Slot(s).kind = "estimate" =>
                  /\ Len(Slot(s).params) = K
                  /\ \A a \in 1..K : Slot(s).params[a][2] > 0
                  /\ Slot(s).error = ""
           /\ Slot(s).kind = "none" =>
                  Slot(s).params = <<>> /\ Slot(s).cov = <<>> /\ Slot(s).error = ""
           /\ Slot(s).kind = "error" =>
                  /\ Slot(s).params = <<>> /\ Slot(s).cov = <<>>
                  /\ Slot(s).error = "SingularDesignError"

\* A full fit that has ended with a slot of each of the three kinds.
C15_Witness ==
    /\ pc = "done" /\ ~params_only /\ Len(result) = n
    /\ \E a \in Processed, b \in Processed, c \in Processed :
          /\ Slot(a).kind = "none"
          /\ Slot(b).kind = "error"
          /\ Slot(c).kind = "estimate" /\ Len(Slot(c).cov) = K

---------------------------------------------------------------------------
(* C16: in an expanding fit over data without missing rows, the fit of     *)
(* every position t >= min_nobs - 1 is made on t + 1 observations while    *)
(* t < window_size - 1 and on window_size observations from                *)
(* t = window_size - 1 on, and that number is the nobs of the estimate     *)
(* stored at t.                                                            *)
C16_ExpandingNobs ==
    (pc = "done" /\ expanding /\ NonMissing(0..(n - 1)) = 0..(n - 1) /\ UnitWeights) =>
        \A s \in 0..(n - 1) :
            s >= MinNobs - 1 =>
                LET used == Cardinality(ValidRows(Data, WindowRows(s)))
                IN  /\ used = IF s < window - 1 THEN s + 1 ELSE window
                    /\ s \in solved
                    /\ Slot(s).kind \in {"estimate", "error"}
                    /\ Slot(s).kind = "estimate" => Slot(s).nobs = used

\* An expanding fit of complete data whose estimates grow from min_nobs to
\* window_size observations.
C16_Witness ==
    /\ pc = "done" /\ expanding /\ MinNobs < window
    /\ NonMissing(0..(n - 1)) = 0..(n - 1)
    /\ \A s \in (MinNobs - 1)..(window - 1) :
          Slot(s).kind = "estimate" /\ Slot(s).nobs = s + 1

---------------------------------------------------------------------------
(* C18: with reset = r, the step of position s recomputes the accumulators *)
(* exactly when s is after the first full window and s mod r = 0; after a  *)
(* recompute they are the sums over the explicit window, whatever they     *)
(* held before; every other step is an incremental one, of the entering    *)
(* row and the leaving row.                                                *)

\* Accumulator contents a step may find, right or wrong.
AnyXpx == {ZeroMat(K), [a \in 1..K |-> [b \in 1..K |-> 7]]}

AnyXpy == {ZeroVec(K), [a \in 1..K |-> 7]}

---------------------------------------------------------------------------
(* C19: every step changes the accumulators by the contribution of the     *)
(* entering row t (nothing if it is missing) minus the contribution of the *)
(* row t - window_size that left the window (nothing if there is none or   *)
(* it is missing).  While t < window_size nothing is subtracted; an        *)
(* incremental step adds exactly the entering row and subtracts exactly    *)
(* the leaving row.                                                        *)
C19_AddThenSlide ==
    [][(pc = "run" /\ t' = t + 1) =>
          LET E == NonMissing({t})
              L == NonMissing({t - window} \cap 0..(n - 1))
          IN  /\ xpx' = MatSub(MatAdd(xpx, SumXpx(Data, E)), SumXpx(Data, L))
              /\ xpy' = VecSub(VecAdd(xpy, SumXpy(Data, E)), SumXpy(Data, L))
              /\ t < window => (log'[t + 1].removed = {} /\ ~log'[t + 1].recomputed)
              /\ ~log'[t + 1].recomputed =>
                     (log'[t + 1].added = E /\ log'[t + 1].removed = L)]_vars

\* A step on a full window has added the entering row and subtracted the
\* leaving one, after a step that only added.
C19_Witness ==
    /\ Started /\ t > window
    /\ log[t].added = {t - 1} /\ log[t].removed = {t - 1 - window}
    /\ log[window].added = {window - 1} /\ log[window].removed = {}

---------------------------------------------------------------------------
(* C20: a stored slot is final: no step changes, moves or removes the slot *)
(* of a position already stored, whatever the later steps meet.            *)
C20_StoredSlotsAreFinal ==
    [][/\ Len(result') >= Len(result)
       /\ \A i \in 1..Len(result) : result'[i] = result[i]]_vars

\* An estimate was stored, and a later recompute step met a singular
\* design.
C20_Witness ==
    /\ pc = "done"
    /\ \E u \in Processed, s \in Processed :
          /\ u < s
          /\ Slot(u).kind = "estimate"
          /\ Slot(s) = SingularSlot
          /\ log[s + 1].recomputed

---------------------------------------------------------------------------
(* C21: fit never modifies its inputs: no step changes the observation     *)
(* rows or the weights, their order included, and the rows the engine      *)
(* works on stay the input rows with their weights, up to and after the    *)
(* end of fit, normal or with an error.                                    *)
C21_InputsNeverModified ==
    /\ [][obs' = obs /\ weights' = weights /\ data' = data]_vars
    /\ [](pc \in {"run", "done", "failed"} => data = WeightedRows)

\* A weighted fit of several rows, one of them missing, has ended normally.
C21_Witness ==
    /\ pc = "done" /\ t = n /\ n > 1
    /\ weights # {} /\ ~UnitWeights
    /\ \E i \in 1..n : obs[i].nan # {}
    /\ \E s \in Processed : Slot(s).kind = "estimate"
    /\ data = WeightedRows

---------------------------------------------------------------------------
(* C22: at every position with a full (not params_only) estimate the       *)
(* residual degrees of freedom are the number of valid rows used minus the *)
(* rank of the design; the design of an estimate has full rank k, so they  *)
(* are nobs - k, and they are never negative.                              *)
C22_ResidualDegreesOfFreedom ==
    (pc = "done" /\ ~params_only) =>
        \A s \in Processed :
            Slot(s).kind = "estimate" =>
                LET V == Counted(RowsEndingAt(s))
                    A == SumXpx(Data, NonMissing(RowsEndingAt(s)))
                IN  /\ Det(A) # 0
                    /\ Slot(s).nobs = Cardinality(V)
                    /\ Slot(s).df_resid = Cardinality(V) - K
                    /\ Slot(s).df_resid = Slot(s).nobs - Rank(A)
                    /\ Slot(s).df_resid >= 0

\* A full fit with an estimate on the k valid rows of a longer window:
\* no degree of freedom is left.
C22_Witness ==
    /\ pc = "done" /\ ~params_only
    /\ \E s \in Processed :
          /\ Slot(s).kind = "estimate"
          /\ Cardinality(RowsEndingAt(s)) > K
          /\ Slot(s).nobs = K
          /\ Slot(s).df_resid = 0

---------------------------------------------------------------------------
(* C23: a row of weight exactly zero is not a valid row of any window: a   *)
(* window whose non-missing rows of non-zero weight number fewer than      *)
(* min_nobs holds "no estimate", and nobs and the degrees of freedom of an *)
(* estimate count the rows of non-zero weight only, so that every slot is  *)
(* the one the fit stores when the zero-weight rows are missing rows.  The *)
(* row is passed through the accumulation all the same: it is added when   *)
(* it enters the window and subtracted when it leaves.                     *)

\* The rows of S of weight zero.
ZeroWeight(S) == {i \in S : Weight(i) = 0}

\* The data with every zero-weight row marked missing.
ZeroAsMissing ==
    [i \in 1..n |->
        IF Data[i].w = 0 THEN [Data[i] EXCEPT !.nan = {"y"}] ELSE Data[i]]

C23_ZeroWeightNotCounted ==
    (pc = "done" /\ reset = {}) =>
        \A s \in Processed :
            LET W == RowsEndingAt(s)
                V == NonMissing(W) \ ZeroWeight(W)
            IN  /\ Cardinality(V) < MinNobs => Slot(s) = NoEstimate
                /\ Slot(s).kind = "estimate" =>
                       /\ Slot(s).nobs = Cardinality(V)
                       /\ ~params_only => Slot(s).df_resid = Cardinality(V) - K
                /\ Slot(s) = RunSlot(ZeroAsMissing, s)
                /\ log[s + 1].added = NonMissing({s})
                /\ log[s + 1].removed = NonMissing({s - window} \cap 0..(n - 1))

\* A full window with enough rows for min_nobs, one of them of weight zero,
\* which leaves too few valid rows: no estimate, and the zero-weight row
\* was added to the sums.
C23_Witness ==
    /\ pc = "done" /\ weights # {}
    /\ \E s \in Processed :
          /\ WindowAvailable(s)
          /\ Cardinality(RowsEndingAt(s)) >= MinNobs
          /\ Cardinality(RowsEndingAt(s) \ ZeroWeight(RowsEndingAt(s))) < MinNobs
          /\ Slot(s) = NoEstimate
          /\ \E z \in ZeroWeight(RowsEndingAt(s)) : log[z + 1].added = {z}

---------------------------------------------------------------------------
(* C24: every accepted fit terminates, after processing the positions      *)
(* 0, 1, ..., n-1 in increasing order, each exactly once: every step       *)
(* stores the slot of the next position and moves on by one, whatever the  *)
(* slot is, and the fit ends with all n positions stored.                  *)
C24_EachPositionOnce ==
    /\ <>(pc = "done")
    /\ [](pc = "done" => (t = n /\ Len(result) = n /\ Len(log) = n))
    /\ [][/\ t' \in {t, t + 1}
          /\ t' = t + 1 =>
                 /\ pc = "run" /\ t < n
                 /\ Len(result') = Len(result) + 1
                 /\ Len(log') = Len(log) + 1
                 /\ Len(result') = t'
          /\ t' = t => (result' = result /\ log' = log)
          /\ pc = "done" => pc' = "done"]_vars

\* A fit has ended after a "no estimate" position of a full window and a
\* singular position, each followed by a further position.
C24_Witness ==
    /\ pc = "done" /\ t = n /\ Len(result) = n
    /\ \E z \in 0..(n - 2), u \in 0..(n - 2) :
          /\ WindowAvailable(z) /\ Slot(z) = NoEstimate
          /\ Slot(u) = SingularSlot

---------------------------------------------------------------------------
(* C27: over any fit a row is added to the accumulators at most once, at   *)
(* the step of its own position, and subtracted at most once, at step      *)
(* (row index) + window_size and only while its contribution is held; a    *)
(* missing row is neither added nor subtracted.  So the accumulators hold  *)
(* each non-missing row of the current window exactly once and no other    *)
(* row, never a row twice or a negative multiple of a row.                 *)

\* How many times the contribution of each row is held in the accumulators
\* after the first u steps, counted from what the steps did.
RECURSIVE Held(_)
Held(u) ==
    IF u = 0 THEN [i \in 0..(n - 1) |-> 0]
    ELSE IF log[u].recomputed
         THEN [i \in 0..(n - 1) |->
                  IF i \in NonMissing(RowsEndingAt(u - 1)) THEN 1 ELSE 0]
         ELSE LET h == Held(u - 1)
              IN  [i \in 0..(n - 1) |->
                      h[i] + (IF i \in log[u].added THEN 1 ELSE 0)
                           - (IF i \in log[u].removed THEN 1 ELSE 0)]

C27_EachRowOnce ==
    Started =>
        /\ \A u \in 1..t :
               /\ log[u].added \subseteq NonMissing({u - 1})
               /\ log[u].removed \subseteq NonMissing({u - 1 - window} \cap 0..(n - 1))
               /\ \A i \in log[u].removed : Held(u - 1)[i] = 1
        /\ LET h == Held(t)
               H == {i \in 0..(n - 1) : h[i] # 0}
           IN  /\ \A i \in 0..(n - 1) : h[i] \in {0, 1}
               /\ t > 0 => H = NonMissing(RowsEndingAt(t - 1))
               /\ xpx = SumXpx(Data, H)
               /\ xpy = SumXpy(Data, H)

\* A missing row has passed through the window and left it, neither added
\* nor subtracted, and the accumulators hold the rows of the current
\* window, each added at its own step.
C27_Witness ==
    /\ Started /\ t > window
    /\ \E i \in 0..(t - 1 - window) :
          /\ obs[i + 1].nan # {} /\ log[i + 1].added = {}
          /\ log[i + window + 1].removed = {} /\ ~log[i + window + 1].recomputed
    /\ \A j \in RowsEndingAt(t - 1) : log[j + 1].added = {j}
    /\ xpx # ZeroMat(K)

---------------------------------------------------------------------------
(* C28: for the same observations, weights, window_size and min_nobs the   *)
(* expanding and the non-expanding fit give the same result at every       *)
(* position t >= window_size - 1: either stores there the fit of the rows  *)
(* t - window_size + 1 .. t, which does not depend on expanding.  They can *)
(* differ only at the positions t < window_size - 1, where the             *)
(* non-expanding fit always holds "no estimate".                           *)

\* The slot of a position with a full window: the from-scratch fit of the
\* window's rows, whatever expanding is.
FullWindowSlot(s) == RefFit((s - window + 1)..s)

C28_ExpandingDiffersOnlyEarly ==
    pc = "done" =>
        \A s \in Processed :
            /\ s >= window - 1 => Slot(s) = FullWindowSlot(s)
            /\ (s < window - 1 /\ ~expanding) => Slot(s) = NoEstimate

\* An expanding fit with an estimate before the first full window, where
\* the non-expanding fit has none, and an estimate on a full window.
C28_Witness ==
    /\ pc = "done" /\ expanding
    /\ \E s \in Processed, u \in Processed :
          /\ s < window - 1 /\ Slot(s).kind = "estimate"
          /\ u >= window - 1 /\ Slot(u).kind = "estimate"
          /\ Slot(u).nobs > Slot(s).nobs

---------------------------------------------------------------------------
(* C29: cov_type changes the covariance matrix only.  The outcome kind,    *)
(* the coefficients, the count of valid observations and the residual      *)
(* degrees of freedom of every position are given by the input and the     *)
(* other options alone, so the nonrobust and the hc0 fit of the same input *)
(* agree on them; the covariance matrix of an estimate is the one of the   *)
(* requested type.                                                         *)

\* A slot without its covariance matrix.
Outcome(slot) ==
    [kind |-> slot.kind, params |-> slot.params, nobs |-> slot.nobs,
     df_resid |-> slot.df_resid, error |-> slot.error]

\* The outcome of position s from its window alone, whatever cov_type is.
OutcomeOf(s) ==
    LET W == RowsEndingAt(s)
        V == Counted(W)
        A == SumXpx(Data, NonMissing(W))
        v == SumXpy(Data, NonMissing(W))
    IN  IF ~WindowAvailable(s) \/ Cardinality(V) < MinNobs THEN Outcome(NoEstimate)
        ELSE IF Det(A) = 0 THEN Outcome(SingularSlot)
        ELSE [kind |-> "estimate", params |-> Solve(A, v), nobs |-> Cardinality(V),
              df_resid |-> IF params_only THEN 0 ELSE Cardinality(V) - K,
              error |-> ""]

C29_CovTypeOnlyCovariance ==
    pc = "done" =>
        \A s \in Processed :
            /\ Outcome(Slot(s)) = OutcomeOf(s)
            /\ (Slot(s).kind = "estimate" /\ ~params_only) =>
                   LET W == RowsEndingAt(s)
                       A == SumXpx(Data, NonMissing(W))
                       e == ResidNum(Data, Counted(W), A, SumXpy(Data, NonMissing(W)))
                   IN  /\ cov_type = "nonrobust" => Slot(s).cov = CovNonrobust(Data, A, e)
                       /\ cov_type = "hc0" => Slot(s).cov = CovHC0(Data, A, e)

\* An hc0 fit with an estimate whose covariance matrix is not the
\* nonrobust one of the same window.
C29_Witness ==
    /\ pc = "done" /\ cov_type = "hc0" /\ ~params_only
    /\ \E s \in Processed :
          /\ Slot(s).kind = "estimate" /\ Slot(s).df_resid > 0
          /\ LET W == RowsEndingAt(s)
                 A == SumXpx(Data, NonMissing(W))
                 e == ResidNum(Data, Counted(W), A, SumXpy(Data, NonMissing(W)))
             IN  Slot(s).cov # CovNonrobust(Data, A, e)

---------------------------------------------------------------------------
(* Forecasting with STL: the seasonal component of horizon h is taken from *)
(* the fitted seasonal component of the sample, S(T+h) = S(T-k).           *)

MaxPeriod == 4

MaxHorizon == 8

\* Mutant of SeasonalLag: the cycles are counted by floor(h / m).
SeasonalLagWholeCycles(m, h) == m - h + m * (h \div m)

\* k = m - h + m floor((h - 1) / m).
SeasonalLag(m, h) == m - h + m * ((h - 1) \div m)

\* The rolling regression takes no part in the other examples.
NoRolling ==
    /\ obs = <<>> /\ weights = {} /\ data = <<>>
    /\ window = 0 /\ min_nobs = {} /\ expanding = FALSE
    /\ cov_type = "nonrobust" /\ params_only = FALSE /\ reset = {}
    /\ pc = "none" /\ t = 0 /\ xpx = <<>> /\ xpy = <<>>
    /\ result = <<>> /\ raised = <<>> /\ solved = {} /\ log = <<>>

rolling == <<inputs, config, pc, t, xpx, xpy, result, raised, solved, log>>

\* A decomposition with period m of a sample of nobs = T observations, at
\* least one full cycle, and a forecast of steps horizons to make.
InitSTL ==
    /\ NoRolling
    /\ simple = <<>> /\ dfm = <<>>
    /\ \E m \in 1..MaxPeriod, c \in 1..2, steps \in 1..MaxHorizon :
          stl = [period |-> m, nobs |-> c * m + (m \div 2), steps |-> steps,
                 source |-> <<>>]

\* The seasonal forecast of the next horizon h: the fitted seasonal value
\* at T - k.
ForecastSeasonal ==
    /\ stl # <<>>
    /\ Len(stl.source) < stl.steps
    /\ LET h == Len(stl.source) + 1
           k == SeasonalLag(stl.period, h)
       IN  stl' = [stl EXCEPT !.source = Append(@, stl.nobs - k)]
    /\ UNCHANGED <<rolling, simple, dfm>>

SpecSTL == InitSTL /\ [][ForecastSeasonal]_vars

---------------------------------------------------------------------------
(* C26: for every period m >= 1 and every horizon h >= 1 the lag           *)
(* k = m - h + m floor((h-1)/m) satisfies 0 <= k <= m - 1, and T - k is    *)
(* congruent to T + h modulo m: the seasonal forecast of every horizon is  *)
(* taken from the last full cycle of the sample, at the seasonal phase of  *)
(* the forecast date.                                                      *)
C26_SeasonalLagInLastCycle ==
    stl # <<>> =>
        \A h \in 1..Len(stl.source) :
            LET m == stl.period
                T == stl.nobs
                k == T - stl.source[h]
            IN  /\ k = m - h + m * ((h - 1) \div m)
                /\ 0 <= k /\ k <= m - 1
                /\ (T - k) % m = (T + h) % m
                /\ stl.source[h] \in (T - m + 1)..T

\* A forecast over more than two cycles: horizon m is taken from the last
\* observation, horizon m + 1 from the start of the last cycle.
C26_Witness ==
    /\ stl # <<>>
    /\ stl.period > 1
    /\ Len(stl.source) > 2 * stl.period
    /\ stl.source[stl.period] = stl.nobs
    /\ stl.source[stl.period + 1] = stl.nobs - stl.period + 1

---------------------------------------------------------------------------
(* Simple coding: a user-defined contrast whose methods return a           *)
(* ContrastMatrix, a matrix with one name per column.  Entries are exact   *)
(* fractions.                                                              *)

MaxLevels == 4

FAdd(a, b) == Frac(a[1] * b[2] + b[1] * a[2], a[2] * b[2])

\* The sum of the fractions f[1], ..., f[k].
RECURSIVE FSum(_, _)
FSum(f, k) == IF k = 0 THEN <<0, 1>> ELSE FAdd(FSum(f, k - 1), f[k])

\* _name_levels(prefix, levels): "[%s%s]" % (prefix, level) for each level.
NameLevels(prefix, lv) == [i \in 1..Len(lv) |-> <<"[", prefix, lv[i], "]">>]

\* Mutant of SimpleContrast: the diagonal is written from the first row,
\* contr[np.diag_indices(nlevels - 1)].
SimpleContrastFromFirstRow(lv) ==
    LET nlevels == Len(lv)
    IN  [i \in 1..nlevels |-> [j \in 1..(nlevels - 1) |->
            IF i = j THEN Frac(nlevels - 1, nlevels) ELSE Frac(-1, nlevels)]]

\* Simple._simple_contrast(levels): nlevels rows of nlevels - 1 entries
\* -1 / nlevels, and (nlevels - 1) / nlevels on the diagonal of the rows
\* after the first, contr[1:].
SimpleContrast(lv) ==
    LET nlevels == Len(lv)
    IN  [i \in 1..nlevels |-> [j \in 1..(nlevels - 1) |->
            IF i - 1 = j THEN Frac(nlevels - 1, nlevels) ELSE Frac(-1, nlevels)]]

\* np.column_stack((np.ones(len(levels)), contr)).
WithOnes(lv, contr) == [i \in 1..Len(lv) |-> <<(<<1, 1>>)>> \o contr[i]]

\* levels[:-1]
AllButLast(lv) == SubSeq(lv, 1, Len(lv) - 1)

\* The lists of distinct levels.
LevelLists ==
    UNION {{lv \in [1..k -> 1..MaxLevels] :
                \A a \in 1..k, b \in 1..k : a # b => lv[a] # lv[b]} :
           k \in 1..MaxLevels}

InitSimple ==
    /\ NoRolling
    /\ stl = <<>> /\ dfm = <<>>
    /\ \E lv \in LevelLists :
          simple = [levels |-> lv, method |-> "", matrix |-> <<>>,
                    column_suffixes |-> <<>>]

\* Simple().code_with_intercept(levels)
code_with_intercept ==
    /\ simple # <<>> /\ simple.method = ""
    /\ simple' = [simple EXCEPT
                     !.method = "code_with_intercept",
                     !.matrix = WithOnes(simple.levels, SimpleContrast(simple.levels)),
                     !.column_suffixes = NameLevels("Simp.", simple.levels)]
    /\ UNCHANGED <<rolling, stl, dfm>>

\* Simple().code_without_intercept(levels)
code_without_intercept ==
    /\ simple # <<>> /\ simple.method = ""
    /\ simple' = [simple EXCEPT
                     !.method = "code_without_intercept",
                     !.matrix = SimpleContrast(simple.levels),
                     !.column_suffixes = NameLevels("Simp.", AllButLast(simple.levels))]
    /\ UNCHANGED <<rolling, stl, dfm>>

NextSimple == code_with_intercept \/ code_without_intercept

SpecSimple == InitSimple /\ [][NextSimple]_vars

---------------------------------------------------------------------------
(* C30: for every list of n >= 2 levels the simple contrast is an n by     *)
(* n - 1 matrix whose entries are -1/n, except (n-1)/n at row j + 1 of     *)
(* column j, so every column sums to zero; code_without_intercept returns  *)
(* it with n - 1 names, code_with_intercept returns it behind a column of  *)
(* ones, n columns with n names.                                           *)

\* The columns of the matrix M from column c on are the simple contrast of
\* n levels.
IsSimpleContrast(M, c, nl) ==
    /\ Len(M) = nl
    /\ \A i \in 1..nl :
          /\ Len(M[i]) = c - 1 + nl - 1
          /\ \A j \in 1..(nl - 1) :
                M[i][c - 1 + j] = IF i = j + 1 THEN Frac(nl - 1, nl) ELSE Frac(-1, nl)
    /\ \A j \in 1..(nl - 1) :
          FSum([i \in 1..nl |-> M[i][c - 1 + j]], nl) = <<0, 1>>

C30_SimpleContrastShape ==
    (simple # <<>> /\ Len(simple.levels) >= 2) =>
        LET nl == Len(simple.levels)
        IN  /\ simple.method = "code_without_intercept" =>
                   /\ IsSimpleContrast(simple.matrix, 1, nl)
                   /\ Len(simple.column_suffixes) = nl - 1
                   /\ \A i \in 1..nl : Len(simple.matrix[i]) = Len(simple.column_suffixes)
            /\ simple.method = "code_with_intercept" =>
                   /\ IsSimpleContrast(simple.matrix, 2, nl)
                   /\ \A i \in 1..nl : simple.matrix[i][1] = <<1, 1>>
                   /\ Len(simple.column_suffixes) = nl
                   /\ \A i \in 1..nl : Len(simple.matrix[i]) = Len(simple.column_suffixes)

\* The contrast of the four levels of the example without intercept:
\* 4 rows, 3 named columns, 3/4 below the first row.
C30_Witness ==
    /\ simple # <<>>
    /\ simple.levels = <<1, 2, 3, 4>>
    /\ simple.method = "code_without_intercept"
    /\ Len(simple.matrix) = 4 /\ Len(simple.column_suffixes) = 3
    /\ simple.matrix[1] = << <<-1, 4>>, <<-1, 4>>, <<-1, 4>> >>
    /\ simple.matrix[2][1] = <<3, 4>>

---------------------------------------------------------------------------
(* ExtendedDFM: a subclass of DynamicFactor set up with k_factors = 1,     *)
(* factor_order = 4 and error_order = 2 on four series, with three new     *)
(* loadings appended to the parameter vector.  Parameters are exact        *)
(* fractions; <<0, 0>> stands for a value that is not one (a nan, or a     *)
(* square root that is not rational).                                      *)

FNeg(a) == FMake(-a[1], a[2])

FMul(a, b) == FMake(a[1] * b[1], a[2] * b[2])

FPlus(a, b) == FMake(a[1] * b[2] + b[1] * a[2], a[2] * b[2])

FMinus(a, b) == FPlus(a, FNeg(b))

FDiv(a, b) == FMake(a[1] * b[2], a[2] * b[1])

\* The square root of the integer k, where it is an integer up to b.
IRoot(k, b) ==
    IF k >= 0 /\ \E h \in 0..b : h * h = k
    THEN {CHOOSE h \in 0..b : h * h = k}
    ELSE {}

\* x / (1 + x^2)^0.5
ToPartial(x) ==
    LET s == IRoot(x[2] * x[2] + x[1] * x[1], Abs(x[1]) + x[2])
    IN  IF x[2] = 0 \/ s = {} THEN FNan ELSE FMake(x[1], Opt(s))

\* r / (1 - r^2)^0.5
FromPartial(r) ==
    LET s == IRoot(r[2] * r[2] - r[1] * r[1], r[2])
    IN  IF r[2] = 0 \/ s = {} THEN FNan ELSE FMake(r[1], Opt(s))

\* Row k of the Durbin-Levinson recursion on the partial autocorrelations r:
\* y[k, i] = y[k - 1, i] + r[k] * y[k - 1, k - i - 1], y[k, k] = r[k].
RECURSIVE LevinsonRow(_, _)
LevinsonRow(r, k) ==
    IF k = 1 THEN <<r[1]>>
    ELSE LET p == LevinsonRow(r, k - 1)
         IN  [i \in 1..k |-> IF i = k THEN r[k] ELSE FPlus(p[i], FMul(r[k], p[k - i]))]

\* tools.constrain_stationary_univariate
constrain_stationary_univariate(unconstrained) ==
    LET nn == Len(unconstrained)
        r  == [i \in 1..nn |-> ToPartial(unconstrained[i])]
        y  == LevinsonRow(r, nn)
    IN  [i \in 1..nn |-> FNeg(y[i])]

\* Row k of the recursion run backwards from y[n - 1, :] = -constrained:
\* y[k - 1, i] = (y[k, i] - y[k, k] * y[k, k - i - 1]) / (1 - y[k, k]^2).
RECURSIVE InverseRow(_, _)
InverseRow(constrained, k) ==
    IF k = Len(constrained) THEN [i \in 1..k |-> FNeg(constrained[i])]
    ELSE LET q == InverseRow(constrained, k + 1)
         IN  [i \in 1..k |->
                 FDiv(FMinus(q[i], FMul(q[k + 1], q[k + 1 - i])),
                      FMinus(<<1, 1>>, FMul(q[k + 1], q[k + 1])))]

\* tools.unconstrain_stationary_univariate
unconstrain_stationary_univariate(constrained) ==
    [k \in 1..Len(constrained) |-> FromPartial(InverseRow(constrained, k)[k])]

\* The number of parameters of each type, in the order of the vector.
k_endog == 4

factor_order == 4

error_order == 2

new_loadings == 3

\* offset = parameters["factor_loadings"] + parameters["exog"]
\*          + parameters["error_cov"]
offset == k_endog + 0 + k_endog

k_parent == offset + factor_order + k_endog * error_order

\* v[a:b]
Slice(v, a, b) == SubSeq(v, a + 1, b)

\* self._params_factor_ar and self._params_factor_zero, as positions.
params_factor_ar == (offset + 1)..(offset + 2)

params_factor_zero == (offset + 3)..(offset + 4)

\* DynamicFactor.transform_params: loadings unchanged, variances squared,
\* the four factor lag coefficients made stationary as an AR(4), the lag
\* coefficients of each series' error made stationary as an AR(2).
ParentTransform(u) ==
    LET far == constrain_stationary_univariate(Slice(u, offset, offset + factor_order))
    IN  [i \in 1..k_parent |->
            IF i <= k_endog THEN u[i]
            ELSE IF i <= offset THEN FMul(u[i], u[i])
            ELSE IF i <= offset + factor_order THEN far[i - offset]
            ELSE LET e == (i - offset - factor_order - 1) \div error_order
                     b == offset + factor_order + e * error_order
                 IN  constrain_stationary_univariate(Slice(u, b, b + error_order))[i - b]]

\* The root of a square variance.
VarianceRoot(c) ==
    LET a == IRoot(c[1], c[1])
        b == IRoot(c[2], c[2])
    IN  IF a = {} \/ b = {} \/ c[2] = 0 THEN FNan ELSE FMake(Opt(a), Opt(b))

\* DynamicFactor.untransform_params: the reverse.
ParentUntransform(c) ==
    LET far == unconstrain_stationary_univariate(Slice(c, offset, offset + factor_order))
    IN  [i \in 1..k_parent |->
            IF i <= k_endog THEN c[i]
            ELSE IF i <= offset THEN VarianceRoot(c[i])
            ELSE IF i <= offset + factor_order THEN far[i - offset]
            ELSE LET e == (i - offset - factor_order - 1) \div error_order
                     b == offset + factor_order + e * error_order
                 IN  unconstrain_stationary_univariate(Slice(c, b, b + error_order))[i - b]]

\* ExtendedDFM.transform_params(unconstrained)
TransformParams(unconstrained) ==
    LET np          == Len(unconstrained)
        constrained == ParentTransform(Slice(unconstrained, 0, np - 3))
        ar_params   == Slice(unconstrained, offset, offset + 2)
        redone      == constrain_stationary_univariate(ar_params)
    IN  [i \in 1..(np - 3) |->
            IF i \in params_factor_ar THEN redone[i - offset] ELSE constrained[i]]
        \o Slice(unconstrained, np - 3, np)

\* ExtendedDFM.untransform_params(constrained)
UntransformParams(constrained) ==
    LET np            == Len(constrained)
        unconstrained == ParentUntransform(Slice(constrained, 0, np - 3))
        ar_params     == Slice(constrained, offset, offset + 2)
        redone        == unconstrain_stationary_univariate(ar_params)
    IN  [i \in 1..(np - 3) |->
            IF i \in params_factor_ar THEN redone[i - offset] ELSE unconstrained[i]]
        \o Slice(constrained, np - 3, np)

\* Every entry of the vector is a number.
Exact(v) == \A i \in 1..Len(v) : v[i][2] # 0

\* The vectors handed to the model: the four factor lag entries and the
\* three new loadings vary, the other entries are fixed.
LagValues == {<<0, 1>>, <<3, 4>>, <<-4, 3>>}

NewLoadings == {<< <<0, 1>>, <<0, 1>>, <<0, 1>> >>, << <<1, 2>>, <<-1, 1>>, <<2, 1>> >>}

ParamVectors ==
    {[i \in 1..k_endog |-> <<1, 2>>] \o [i \in 1..k_endog |-> <<2, 1>>]
       \o far \o [i \in 1..(k_endog * error_order) |-> IF i % 2 = 1 THEN <<3, 4>> ELSE <<0, 1>>]
       \o nl :
     far \in [1..factor_order -> LagValues], nl \in NewLoadings}

MaxCalls == 2

\* The model after construction, about to be called with a vector.
InitDFM ==
    /\ NoRolling
    /\ stl = <<>> /\ simple = <<>>
    /\ \E p \in ParamVectors :
          dfm = [params |-> p, arg |-> <<>>, calls |-> <<>>,
                 ssm |-> [factor_ar |-> <<>>, design |-> <<>>]]

\* A call of transform_params on the current vector; the vector returned
\* becomes the current one.
transform_params ==
    /\ dfm # <<>> /\ Len(dfm.calls) < MaxCalls
    /\ Exact(TransformParams(dfm.params))
    /\ dfm' = [dfm EXCEPT !.arg = dfm.params,
                          !.params = TransformParams(dfm.params),
                          !.calls = Append(@, "transform_params")]
    /\ UNCHANGED <<rolling, stl, simple>>

untransform_params ==
    /\ dfm # <<>> /\ Len(dfm.calls) < MaxCalls
    /\ Exact(UntransformParams(dfm.params))
    /\ dfm' = [dfm EXCEPT !.arg = dfm.params,
                          !.params = UntransformParams(dfm.params),
                          !.calls = Append(@, "untransform_params")]
    /\ UNCHANGED <<rolling, stl, simple>>

\* update(params, transformed): the last two factor lag coefficients are
\* set to zero in params, the vector without the new loadings goes to
\* DynamicFactor.update and the new loadings into the design matrix.
update ==
    /\ dfm # <<>> /\ Len(dfm.calls) < MaxCalls
    /\ \E transformed \in BOOLEAN :
          LET given  == IF transformed THEN dfm.params ELSE TransformParams(dfm.params)
              params == [i \in 1..Len(given) |->
                            IF i \in params_factor_zero THEN <<0, 1>> ELSE given[i]]
          IN  /\ Exact(given)
              /\ dfm' = [dfm EXCEPT
                            !.arg = dfm.params,
                            !.params = params,
                            !.calls = Append(@, "update"),
                            !.ssm = [factor_ar |-> Slice(params, offset, offset + factor_order),
                                     design |-> Slice(params, Len(params) - 3, Len(params))]]
    /\ UNCHANGED <<rolling, stl, simple>>

NextDFM == transform_params \/ untransform_params \/ update

SpecDFM == InitDFM /\ [][NextDFM]_vars

---------------------------------------------------------------------------
(* C25, as claimed: the vector transform_params or untransform_params      *)
(* returns has the three appended loadings of its argument unchanged, the  *)
(* first two factor lag coefficients constrained (unconstrained) to        *)
(* stationarity as an AR(2), and the last two factor lag coefficients set  *)
(* to zero.                                                                *)
C25_TransformZeroesLastTwo ==
    (dfm # <<>> /\ dfm.calls # <<>> /\ dfm.calls[Len(dfm.calls)] # "update") =>
        LET last == dfm.calls[Len(dfm.calls)]
            arg  == dfm.arg
            ret  == dfm.params
            np   == Len(arg)
        IN  /\ Len(ret) = np
            /\ Slice(ret, np - 3, np) = Slice(arg, np - 3, np)
            /\ Slice(ret, offset, offset + 2) =
                   IF last = "transform_params"
                   THEN constrain_stationary_univariate(Slice(arg, offset, offset + 2))
                   ELSE unconstrain_stationary_univariate(Slice(arg, offset, offset + 2))
            /\ \A i \in params_factor_zero : ret[i] = <<0, 1>>

=============================================================================
